---- MODULE Spec2Model ----
(***************************************************************************)
(* Payment reconciliation of the marketplace application: payment          *)
(* initiation (PaymentAPIView), gateway verification                       *)
(* (VerifyPaymentAPIView) and the gateway webhook (PaystackWebhookView),   *)
(* run by concurrent request workers against one database.                 *)
(*                                                                         *)
(* Database model: READ COMMITTED.  A handler's query (objects.get) is one *)
(* step, and the writes of a handler become visible together in one later *)
(* step (the commit of its transaction.atomic() block, or the autocommit   *)
(* of its single save()).  Model.save() writes every column of the row     *)
(* from the in-memory instance.                                            *)
(*                                                                         *)
(* The gateway names the charge of a reference by one transaction id, so   *)
(* the unique constraint on Payment.transaction_id never fires; lock       *)
(* timeouts are not modelled.  The reference the gateway returns at        *)
(* initialization is the one the view sent it.                             *)
(*                                                                         *)
(* Spec is the payment flow of one user paying the total of an order.      *)
(* OrderSpec adds the placing of orders, AccountSpec the deletion of the   *)
(* account, AmountSpec any amount in the initiation, FaultSpec a save()    *)
(* that raises.  SigSpec and RetrySpec run verify_signature and the retry  *)
(* methods of Payment on their own.                                        *)
(***************************************************************************)
EXTENDS Integers, Sequences, FiniteSets, TLC

VARIABLES
    orders,     \* Order table: order id -> status column
    payments,   \* Payment table: sequence of rows, in insertion order
    now,        \* timezone.now(), in clock ticks
    pc,         \* per worker: the handler step it is at
    req,        \* per worker: the request it is serving
    inst,       \* per worker: the in-memory Payment instance (after mutation)
    seen,       \* per worker: the Payment row as its query returned it
    last,       \* the response sent and the line logged by the step just taken
    served,     \* requests accepted so far
    sigIn,      \* a call of verify_signature: its arguments
    sigOut,     \* a call of verify_signature: what it did
    retryRow,   \* retry_count and last_retry_at columns of one Payment row
    retryInst,  \* per worker: its in-memory instance of that row
    retryOut,   \* a call of can_retry / increment_retry: what it returned
    users       \* User table: the ids of the accounts that exist

vars == <<orders, payments, now, pc, req, inst, seen, last, served, sigIn, sigOut,
          retryRow, retryInst, retryOut, users>>
dbvars == <<orders, payments>>
sigvars == <<sigIn, sigOut>>
retryvars == <<retryRow, retryInst, retryOut>>

----------------------------------------------------------------------------
(* Bounds and finite input sets *)

MaxTime == 1
MaxRequests == 4

Workers == {"w1", "w2"}

OrderIds == {"42"}
NoOrderId == "99"
UserId == "7"

\* Values are tuples so that values of different shapes can be compared:
\* None is the empty tuple, a Python string s is <<s>>.
None == <<>>
Str(s) == <<s>>

\* f"{order.id}-{request.user.id}"
ReferenceOf(o) == <<o, UserId>>
KnownRefs == {ReferenceOf(o) : o \in OrderIds}
ForeignRef == ReferenceOf(NoOrderId)
Refs == KnownRefs \cup {ForeignRef}

\* the gateway's identifiers for the charge and the refund of a reference
ChargeId(ref) == <<"txn", ref[1]>>
RefundId(ref) == <<"rfnd", ref[1]>>

Events == {"charge.success", "charge.failed", "refund.processed", "other"}

----------------------------------------------------------------------------
(* Python dicts with a fixed key set: a key holds <<>> when the dict lacks   *)
(* it and <<v>> when the dict maps it to v.                                  *)

Missing == <<>>
Has(v) == <<v>>

\* dict.get(key): None for a missing key
DictGet(slot) == IF slot = Missing THEN None ELSE slot[1]

\* dict.update(other): every key of other is written, the other keys stay
DictUpdate(d, other) ==
    [k \in DOMAIN d |-> IF k \in DOMAIN other /\ other[k] # Missing
                        THEN other[k] ELSE d[k]]

----------------------------------------------------------------------------
(* Webhook bodies: raw bytes, and what json.loads makes of them *)

Garbage == <<"bytes", "{not json">>
\* bytes that are no UTF-8 text, such as b'\x80'
Undecodable == <<"bytes", "0x80">>

\* the bytes of json.dumps({'event': e, 'data': {'reference':.., 'id':.., 'message':..}})
JsonBytes(e, ref) ==
    <<"bytes", e, ref,
      IF e = "refund.processed" THEN RefundId(ref) ELSE ChargeId(ref),
      IF e = "charge.failed" THEN Has(Str("declined")) ELSE Missing>>

Bodies ==
    {JsonBytes(e, r) : e \in Events \ {"other"}, r \in Refs}
    \cup {JsonBytes("other", ForeignRef), Garbage, Undecodable}

\* json.loads raises on bytes that are not JSON
IsJson(body) == Len(body) = 5

\* what it raises: decoding the bytes comes first (UnicodeDecodeError, a
\* ValueError that is no JSONDecodeError), then the parse
JsonError(body) ==
    IF body = Undecodable THEN "UnicodeDecodeError" ELSE "JSONDecodeError"

json_loads(body) ==
    [event |-> body[2],
     data  |-> [reference |-> body[3], id |-> body[4], message |-> body[5]]]

----------------------------------------------------------------------------
(* Signature: HMAC-SHA512 hex digest, as an injective function of key and bytes *)

PAYSTACK_SECRET_KEY == "test_secret_key"
OtherKey == "attacker_key"          \* a key the server does not hold

HmacSha512Hex(key, payload) == <<"hexdigest", key, payload>>

\* what the x-paystack-signature header may hold: nothing, the empty string,
\* a string that is no digest, the digest of these bytes under the server's key
\* or another key, the server-key digest of other bytes
Signatures(body) ==
    { None, Str(""), Str("invalid_signature"),
      HmacSha512Hex(PAYSTACK_SECRET_KEY, body),
      HmacSha512Hex(OtherKey, body),
      HmacSha512Hex(PAYSTACK_SECRET_KEY, Garbage) }

\* `not signature`: None and the empty string are falsy
Falsy(signature) == signature = None \/ signature = Str("")

\* verify_signature without the comparison: any non-empty signature passes
verify_signature_AnyNonEmpty(payload, signature) ==
    IF Falsy(signature)
    THEN [ret |-> FALSE, compared |-> FALSE]
    ELSE [ret |-> TRUE, compared |-> FALSE]

\* verify_signature without the early return on a missing signature
verify_signature_NoEarlyReturn(payload, signature) ==
    [ret |-> (HmacSha512Hex(PAYSTACK_SECRET_KEY, payload) = signature),
     compared |-> TRUE]

\* verify_signature: ret is the value returned, compared tells whether
\* hmac.compare_digest was reached
verify_signature(payload, signature) ==
    IF Falsy(signature)
    THEN [ret |-> FALSE, compared |-> FALSE]
    ELSE [ret |-> (HmacSha512Hex(PAYSTACK_SECRET_KEY, payload) = signature),
          compared |-> TRUE]

----------------------------------------------------------------------------
(* Payment rows *)

MetaKeys == {"payment_url", "payment_method", "currency", "webhook_data",
             "webhook_received_at", "failure_reason", "refund_id"}

EmptyDict == [k \in MetaKeys |-> Missing]

\* the metadata a new Payment is created with
InitialMetadata ==
    DictUpdate(EmptyDict,
        [payment_url    |-> Has(Str("https://checkout.paystack.com/x")),
         payment_method |-> Has(Str("card")),
         currency       |-> Has(Str("GHS"))])

\* Order.total_price of the orders of the model
total_price(o) == "100.00"

\* the `amount` a client may send: the order's total, or less
Amounts == {"100.00", "1.00"}

\* serializer.save(reference=..., status='Pending', ..., metadata={...})
NewPayment(o, reference, amount) ==
    [order          |-> o,
     reference      |-> reference,
     amount         |-> amount,
     status         |-> "Pending",
     transaction_id |-> None,
     metadata       |-> InitialMetadata]

\* primary keys of the rows Payment.objects.filter(...) selects
PksByReference(reference) ==
    {i \in 1..Len(payments) : payments[i].reference = reference}
PksByOrder(o) ==
    {i \in 1..Len(payments) : payments[i].order = o}

\* the charge.success branch without the assignment to transaction_id
OnChargeSuccess_NoTransactionId(row, data, t) ==
    [row EXCEPT !.status = "Completed",
                !.metadata = DictUpdate(@, [webhook_data        |-> Has(data),
                                            webhook_received_at |-> Has(t)])]

\* the in-memory instance after the charge.success branch has assigned to it
OnChargeSuccess(row, data, t) ==
    [row EXCEPT !.status = "Completed",
                !.transaction_id = data.id,
                !.metadata = DictUpdate(@, [webhook_data        |-> Has(data),
                                            webhook_received_at |-> Has(t)])]

\* the in-memory instance after the charge.failed branch has assigned to it
OnChargeFailed(row, data, t) ==
    [row EXCEPT !.status = "Failed",
                !.metadata = DictUpdate(@, [webhook_data        |-> Has(data),
                                            webhook_received_at |-> Has(t),
                                            failure_reason      |-> Has(DictGet(data.message))])]

\* the in-memory instance after the refund.processed branch has assigned to it
OnRefundProcessed(row, data, t) ==
    [row EXCEPT !.status = "Refunded",
                !.metadata = DictUpdate(@, [webhook_data        |-> Has(data),
                                            webhook_received_at |-> Has(t),
                                            refund_id           |-> Has(data.id)])]

\* the in-memory instance after the verify view has assigned to it
OnVerifySuccess(row, id) ==
    [row EXCEPT !.status = "Completed",
                !.transaction_id = id]

\* order.status = "Paid"; order.save()
MarkOrderPaid(tbl, o) == [tbl EXCEPT ![o] = "Paid"]

----------------------------------------------------------------------------
(* Workers *)

Idle == [handler |-> "none"]
NoInstance == [pk |-> 0]

\* the response of a handler and the line it logged
Answer(handler, event, reference, status, log) ==
    [handler |-> handler, event |-> event, reference |-> reference,
     status |-> status, log |-> log]

NoAnswer == Answer("none", "none", None, 0, "none")

NoCall == [payload |-> Garbage, signature |-> None]
NotRun == [ran |-> FALSE, ret |-> FALSE, compared |-> FALSE]

\* a worker that holds no instance of the row; no call made
NoRetryInstance ==
    [loaded |-> FALSE, retry_count |-> 0, last_retry_at |-> None, can |-> "none"]
NoRetryCall == [op |-> "none", worker |-> "none", ret |-> FALSE]

Init ==
    /\ orders = [o \in OrderIds |-> "pending"]
    /\ payments = <<>>
    /\ now = 0
    /\ pc = [w \in Workers |-> "idle"]
    /\ req = [w \in Workers |-> Idle]
    /\ inst = [w \in Workers |-> NoInstance]
    /\ seen = [w \in Workers |-> NoInstance]
    /\ last = NoAnswer
    /\ served = 0
    /\ sigIn = NoCall
    /\ sigOut = NotRun
    /\ retryRow = [retry_count |-> 0, last_retry_at |-> None]
    /\ retryInst = [w \in Workers |-> NoRetryInstance]
    /\ retryOut = NoRetryCall
    /\ users = {UserId}

\* permission_classes = [IsAuthenticated]: the request is made by UserId, and
\* reaches the view only while that account exists
IsAuthenticated == UserId \in users

\* the handler returns: the worker is free again
Return(w, answer) ==
    /\ last' = answer
    /\ pc' = [pc EXCEPT ![w] = "idle"]
    /\ req' = [req EXCEPT ![w] = Idle]
    /\ inst' = [inst EXCEPT ![w] = NoInstance]
    /\ seen' = [seen EXCEPT ![w] = NoInstance]

\* time passes
Tick ==
    /\ now < MaxTime
    /\ now' = now + 1
    /\ UNCHANGED <<orders, payments, pc, req, inst, seen, served, sigvars, retryvars, users>>
    /\ last' = NoAnswer

----------------------------------------------------------------------------
(* PaymentAPIView.post *)

\* validation and the existence check, up to the gateway call
PaymentPost(w, o, amount) ==
    /\ pc[w] = "idle"
    /\ IsAuthenticated
    /\ served < MaxRequests
    /\ served' = served + 1
    /\ IF o \notin DOMAIN orders
       THEN /\ Return(w, Answer("payment", "none", ReferenceOf(o), 400, "serializer.errors"))
       ELSE IF PksByOrder(o) # {}
       THEN /\ Return(w, Answer("payment", "none", ReferenceOf(o), 400,
                                "Payment already exists for this order"))
       ELSE /\ pc' = [pc EXCEPT ![w] = "pay_call"]
            /\ req' = [req EXCEPT ![w] = [handler |-> "payment", order |-> o,
                                          amount |-> amount]]
            /\ UNCHANGED <<inst, seen>>
            /\ last' = NoAnswer
    /\ UNCHANGED <<orders, payments, now, sigvars, retryvars, users>>

\* what requests.post / requests.get may raise: subclasses of
\* requests.exceptions.RequestException
GatewayExceptions == {"ConnectionError", "Timeout", "HTTPError"}

\* an except clause that names ConnectionError alone
IsRequestException_ConnectionOnly(exc) == exc = "ConnectionError"

\* `except requests.exceptions.RequestException` catches every subclass
IsRequestException(exc) == exc \in GatewayExceptions

\* the except clauses of PaymentAPIView.post, tried in order: RequestException
\* first, then Timeout, then the outer `except Exception`
InitExceptStatus(exc) ==
    IF IsRequestException(exc) THEN 503
    ELSE IF exc = "Timeout" THEN 504
    ELSE 500

InitExceptLog(exc) ==
    IF IsRequestException(exc) THEN "Paystack API request failed"
    ELSE IF exc = "Timeout" THEN "Paystack API request timed out"
    ELSE "Unexpected error in payment initialization"

\* a Payment table without the unique constraints
UniqueViolation_NoConstraint(o, reference) == FALSE

\* the insert violates unique(order) or unique(reference): IntegrityError
UniqueViolation(o, reference) ==
    PksByOrder(o) # {} \/ PksByReference(reference) # {}

\* what the initialize call does: it answers with an HTTP status (200, a 4xx
\* decline, a 5xx), or requests.post raises
GatewayInitResults == {"200", "400", "500", "ConnectionError", "Timeout"}

\* requests.post returns or raises, and on 200 the row is inserted
PaymentGateway(w, result) ==
    /\ pc[w] = "pay_call"
    /\ LET o == req[w].order
           reference == ReferenceOf(o)
       IN  IF result \in GatewayExceptions
           THEN /\ Return(w, Answer("payment", "none", reference,
                                    InitExceptStatus(result), InitExceptLog(result)))
                /\ UNCHANGED payments
           ELSE IF result # "200"
           THEN /\ Return(w, Answer("payment", "none", reference, 503,
                                    "Paystack API returned error"))
                /\ UNCHANGED payments
           ELSE IF UniqueViolation(o, reference)
           THEN \* IntegrityError, caught by the outer `except Exception`
                /\ Return(w, Answer("payment", "none", reference, 500,
                                    "Unexpected error in payment initialization"))
                /\ UNCHANGED payments
           ELSE /\ payments' = Append(payments, NewPayment(o, reference, req[w].amount))
                /\ Return(w, Answer("payment", "none", reference, 201,
                                    "Payment initialized"))
    /\ UNCHANGED <<orders, now, served, sigvars, retryvars, users>>

----------------------------------------------------------------------------
(* VerifyPaymentAPIView.get *)

\* the except clauses of VerifyPaymentAPIView.get: RequestException, then the
\* outer `except Exception`
VerifyExceptStatus(exc) == IF IsRequestException(exc) THEN 503 ELSE 500

VerifyExceptLog(exc) ==
    IF IsRequestException(exc) THEN "Paystack verification request failed"
    ELSE "Unexpected error in payment verification"

\* the gateway is unreachable, times out or answers 4xx/5xx (raise_for_status),
\* or it answers: status false, or a charge that is success, failed or abandoned
GatewayVerifyResults ==
    GatewayExceptions \cup {"status_false", "success", "failed", "abandoned"}

\* requests.get(.../transaction/verify/{reference}) and the reading of its answer
VerifyGet(w, reference, result) ==
    /\ pc[w] = "idle"
    /\ IsAuthenticated
    /\ served < MaxRequests
    /\ served' = served + 1
    /\ IF result \in GatewayExceptions
       THEN Return(w, Answer("verify", "none", reference,
                             VerifyExceptStatus(result), VerifyExceptLog(result)))
       ELSE IF result = "status_false"
       THEN Return(w, Answer("verify", "none", reference, 400,
                             "Paystack verification failed"))
       ELSE IF result # "success"
       THEN Return(w, Answer("verify", "none", reference, 400,
                             "Payment verification failed"))
       ELSE /\ pc' = [pc EXCEPT ![w] = "verify_query"]
            /\ req' = [req EXCEPT ![w] = [handler |-> "verify", reference |-> reference,
                                          id |-> ChargeId(reference)]]
            /\ UNCHANGED <<inst, seen>>
            /\ last' = NoAnswer
    /\ UNCHANGED <<orders, payments, now, sigvars, retryvars, users>>

\* Payment.objects.get(reference=reference) inside transaction.atomic(), and the
\* assignments to the instance
VerifyQuery(w) ==
    /\ pc[w] = "verify_query"
    /\ LET pks == PksByReference(req[w].reference)
       IN  IF pks = {}
           THEN Return(w, Answer("verify", "none", req[w].reference, 404,
                                 "Payment verification failed - DoesNotExist"))
           ELSE \E pk \in pks :
                  /\ seen' = [seen EXCEPT ![w] = [pk |-> pk, row |-> payments[pk]]]
                  /\ inst' = [inst EXCEPT ![w] =
                                [pk |-> pk, row |-> OnVerifySuccess(payments[pk], req[w].id)]]
                  /\ pc' = [pc EXCEPT ![w] = "verify_commit"]
                  /\ UNCHANGED req
                  /\ last' = NoAnswer
    /\ UNCHANGED <<orders, payments, now, served, sigvars, retryvars, users>>

\* order.save(); payment.save(); the atomic block commits
VerifyCommit(w) ==
    /\ pc[w] = "verify_commit"
    /\ orders' = MarkOrderPaid(orders, inst[w].row.order)
    /\ payments' = [payments EXCEPT ![inst[w].pk] = inst[w].row]
    /\ Return(w, Answer("verify", "none", req[w].reference, 200,
                        "Payment verified successfully"))
    /\ UNCHANGED <<now, served, sigvars, retryvars, users>>

----------------------------------------------------------------------------
(* PaystackWebhookView.post *)

HandledEvents == {"charge.success", "charge.failed", "refund.processed"}

\* signature check, json.loads and the dispatch on the event
\* the except clauses of PaystackWebhookView.post: json.JSONDecodeError, then
\* `except Exception`
WebhookExceptStatus(exc) == IF exc = "JSONDecodeError" THEN 400 ELSE 500

WebhookExceptLog(exc) ==
    IF exc = "JSONDecodeError" THEN "Invalid JSON payload received in webhook"
    ELSE "Error processing webhook"

WebhookPost(w, body, signature) ==
    /\ pc[w] = "idle"
    /\ served < MaxRequests
    /\ served' = served + 1
    /\ IF ~verify_signature(body, signature).ret
       THEN Return(w, Answer("webhook", "none", None, 401,
                             "Invalid webhook signature received"))
       ELSE IF ~IsJson(body)
       THEN Return(w, Answer("webhook", "none", None,
                             WebhookExceptStatus(JsonError(body)),
                             WebhookExceptLog(JsonError(body))))
       ELSE LET payload == json_loads(body)
            IN  IF payload.event \notin HandledEvents
                THEN Return(w, Answer("webhook", payload.event, payload.data.reference,
                                      200, "none"))
                ELSE /\ pc' = [pc EXCEPT ![w] = "webhook_query"]
                     /\ req' = [req EXCEPT ![w] = [handler |-> "webhook",
                                                   event   |-> payload.event,
                                                   data    |-> payload.data]]
                     /\ UNCHANGED <<inst, seen>>
                     /\ last' = NoAnswer
    /\ UNCHANGED <<orders, payments, now, sigvars, retryvars, users>>

\* the instance after the branch of this event has assigned to it
Mutated(event, row, data, t) ==
    IF event = "charge.success" THEN OnChargeSuccess(row, data, t)
    ELSE IF event = "charge.failed" THEN OnChargeFailed(row, data, t)
    ELSE OnRefundProcessed(row, data, t)

\* the response when Payment.objects.get raises DoesNotExist
NotFoundStatus(event) == IF event = "charge.success" THEN 404 ELSE 200

\* Payment.objects.get(reference=reference) and the assignments to the instance
WebhookQuery(w) ==
    /\ pc[w] = "webhook_query"
    /\ LET event == req[w].event
           data  == req[w].data
           pks   == PksByReference(data.reference)
       IN  IF pks = {}
           THEN Return(w, Answer("webhook", event, data.reference, NotFoundStatus(event),
                                 "Payment not found for reference"))
           ELSE \E pk \in pks :
                  /\ seen' = [seen EXCEPT ![w] = [pk |-> pk, row |-> payments[pk]]]
                  /\ inst' = [inst EXCEPT ![w] =
                                [pk |-> pk, row |-> Mutated(event, payments[pk], data, now)]]
                  /\ pc' = [pc EXCEPT ![w] = "webhook_save"]
                  /\ UNCHANGED req
                  /\ last' = NoAnswer
    /\ UNCHANGED <<orders, payments, now, served, sigvars, retryvars, users>>

\* the orders table after the branch of this event: only charge.success saves the order
OrdersAfter(event, tbl, o) ==
    IF event = "charge.success" THEN MarkOrderPaid(tbl, o) ELSE tbl

WebhookLog(event) ==
    IF event = "charge.success" THEN "Payment completed via webhook"
    ELSE IF event = "charge.failed" THEN "Payment failed via webhook"
    ELSE "Payment refunded via webhook"

\* payment.save() (and order.save() for charge.success, in one transaction)
WebhookSave(w) ==
    /\ pc[w] = "webhook_save"
    /\ payments' = [payments EXCEPT ![inst[w].pk] = inst[w].row]
    /\ orders' = OrdersAfter(req[w].event, orders, inst[w].row.order)
    /\ Return(w, Answer("webhook", req[w].event, req[w].data.reference, 200,
                        WebhookLog(req[w].event)))
    /\ UNCHANGED <<now, served, sigvars, retryvars, users>>

----------------------------------------------------------------------------
(* The system: concurrent workers serving requests *)

Next ==
    \/ Tick
    \/ \E w \in Workers, o \in OrderIds \cup {NoOrderId} :
          PaymentPost(w, o, total_price(o))
    \/ \E w \in Workers, result \in GatewayInitResults : PaymentGateway(w, result)
    \/ \E w \in Workers, reference \in Refs, result \in GatewayVerifyResults :
          VerifyGet(w, reference, result)
    \/ \E w \in Workers : VerifyQuery(w)
    \/ \E w \in Workers : VerifyCommit(w)
    \/ \E w \in Workers, body \in Bodies :
          \E signature \in Signatures(body) : WebhookPost(w, body, signature)
    \/ \E w \in Workers : WebhookQuery(w)
    \/ \E w \in Workers : WebhookSave(w)

Spec == Init /\ [][Next]_vars

----------------------------------------------------------------------------
(* OrderAPIView.post: a client places an order *)

\* Order.ORDER_STATUS_CHOICES
ORDER_STATUS_CHOICES == {"pending", "processing", "shipped", "delivered", "cancelled"}

\* the id the next Order row gets
NewOrderId == "43"

\* the `status` of the request body: absent, or a string
ClientStatuses == {None, Str("shipped"), Str("Paid"), Str("paid")}

\* a status column that is a CharField without choices
OrderStatusValid_NoChoices(status) == TRUE

\* OrderSerializer (fields = '__all__'): status is a ChoiceField over the
\* model's choices, not required
OrderStatusValid(status) == status = None \/ status[1] \in ORDER_STATUS_CHOICES

\* the status the row is created with: the model's default when absent
OrderStatusSaved(status) == IF status = None THEN "pending" ELSE status[1]

\* serializer.is_valid(), serializer.save(user=request.user)
OrderPost(w, status) ==
    /\ pc[w] = "idle"
    /\ IsAuthenticated
    /\ served < MaxRequests
    /\ served' = served + 1
    /\ NewOrderId \notin DOMAIN orders
    /\ IF OrderStatusValid(status)
       THEN /\ orders' = orders @@ (NewOrderId :> OrderStatusSaved(status))
            /\ Return(w, Answer("order", "none", status, 201, "created"))
       ELSE /\ orders' = orders
            /\ Return(w, Answer("order", "none", status, 400, "serializer.errors"))
    /\ UNCHANGED <<payments, now, sigvars, retryvars, users>>

OrderNext ==
    \/ Next
    \/ \E w \in Workers, status \in ClientStatuses : OrderPost(w, status)

OrderSpec == Init /\ [][OrderNext]_vars

----------------------------------------------------------------------------
(* UserProfileView.destroy: a user deletes their account *)

\* the rows user.delete() leaves: Order.user and Payment.order are
\* on_delete=CASCADE, and every Order of the model belongs to UserId
OrdersAfterUserDelete(tbl) == [o \in {} |-> "pending"]
PaymentsAfterUserDelete(tbl, remaining) ==
    SelectSeq(tbl, LAMBDA row : row.order \in DOMAIN remaining)

\* user = self.get_object(); user.delete(), taken while no other request is
\* in flight
UserDestroy(w) ==
    /\ \A v \in Workers : pc[v] = "idle"
    /\ served < MaxRequests
    /\ served' = served + 1
    /\ UserId \in users
    /\ users' = users \ {UserId}
    /\ orders' = OrdersAfterUserDelete(orders)
    /\ payments' = PaymentsAfterUserDelete(payments, orders')
    /\ Return(w, Answer("account", "none", None, 204, "User profile deleted successfully"))
    /\ UNCHANGED <<now, sigvars, retryvars>>

AccountNext ==
    \/ Next
    \/ \E w \in Workers : UserDestroy(w)

AccountSpec == Init /\ [][AccountNext]_vars

----------------------------------------------------------------------------
(* PaymentAPIView.post with any amount in the request body; in Next the client
   sends the order's total_price *)

AmountNext ==
    \/ Next
    \/ \E w \in Workers, o \in OrderIds, amount \in Amounts : PaymentPost(w, o, amount)

AmountSpec == Init /\ [][AmountNext]_vars

----------------------------------------------------------------------------
(* Database faults: a save() of a Success reconciliation raises *)

\* the save that raises (a DatabaseError)
SaveFaults == {"order.save", "payment.save"}

\* a block whose writes stay when a later statement raises (autocommit)
transaction_atomic_Autocommit(before, written) == written

\* `with transaction.atomic():` left by an exception: every write made in the
\* block is rolled back
transaction_atomic(before, written) == before

\* the tables as a record
Tables == [orders |-> orders, payments |-> payments]

\* the verify view saves the order, then the payment: what is written when
\* `fault` raises
VerifyWritten(w, fault) ==
    IF fault = "order.save" THEN Tables
    ELSE [Tables EXCEPT !.orders = MarkOrderPaid(@, inst[w].row.order)]

\* the charge.success branch saves the payment, then the order
WebhookWritten(w, fault) ==
    IF fault = "payment.save" THEN Tables
    ELSE [Tables EXCEPT !.payments = [@ EXCEPT ![inst[w].pk] = inst[w].row]]

\* logger.error(f"...: {str(e)}") of the outer `except Exception`
VerifyFaultLog(fault) ==
    IF fault = "order.save" THEN "Unexpected error in payment verification: order.save"
    ELSE "Unexpected error in payment verification: payment.save"
WebhookFaultLog(fault) ==
    IF fault = "order.save" THEN "Error processing webhook: order.save"
    ELSE "Error processing webhook: payment.save"

\* order.save() or payment.save() raises inside the atomic block of the verify
\* view; the outer `except Exception` answers 500
VerifyCommitFails(w, fault) ==
    /\ pc[w] = "verify_commit"
    /\ LET db == transaction_atomic(Tables, VerifyWritten(w, fault))
       IN  /\ orders' = db.orders
           /\ payments' = db.payments
    /\ Return(w, Answer("verify", "none", req[w].reference, 500, VerifyFaultLog(fault)))
    /\ UNCHANGED <<now, served, sigvars, retryvars, users>>

\* a save() of a webhook branch raises: inside the atomic block for
\* charge.success, and the single autocommitted payment.save() of the other
\* branches; the outer `except Exception` answers 500
WebhookSaveFails(w, fault) ==
    /\ pc[w] = "webhook_save"
    /\ fault = "order.save" => req[w].event = "charge.success"
    /\ LET db == IF req[w].event = "charge.success"
                 THEN transaction_atomic(Tables, WebhookWritten(w, fault))
                 ELSE Tables
       IN  /\ orders' = db.orders
           /\ payments' = db.payments
    /\ Return(w, Answer("webhook", req[w].event, req[w].data.reference, 500,
                        WebhookFaultLog(fault)))
    /\ UNCHANGED <<now, served, sigvars, retryvars, users>>

FaultNext ==
    \/ Next
    \/ \E w \in Workers, fault \in SaveFaults : VerifyCommitFails(w, fault)
    \/ \E w \in Workers, fault \in SaveFaults : WebhookSaveFails(w, fault)

FaultSpec == Init /\ [][FaultNext]_vars

----------------------------------------------------------------------------
(* verify_signature on its own: every payload with every signature *)

SigCall(payload, signature) ==
    /\ sigIn' = [payload |-> payload, signature |-> signature]
    /\ LET r == verify_signature(payload, signature)
       IN  sigOut' = [ran |-> TRUE, ret |-> r.ret, compared |-> r.compared]
    /\ UNCHANGED <<orders, payments, now, pc, req, inst, seen, last, served, retryvars, users>>

\* every header value: absent, empty, no digest, the digest of any bytes under
\* either key
AllSignatures ==
    { None, Str(""), Str("invalid_signature") }
    \cup { HmacSha512Hex(k, b) : k \in {PAYSTACK_SECRET_KEY, OtherKey}, b \in Bodies }

SigNext == \E payload \in Bodies : \E signature \in AllSignatures :
              SigCall(payload, signature)

SigSpec == Init /\ [][SigNext]_vars

----------------------------------------------------------------------------
(* Payment.can_retry and Payment.increment_retry, called by concurrent     *)
(* workers on their own in-memory instances of one Payment row             *)

\* `if self.retry_count >= 3` (Maximum 3 retries)
MaxRetries == 3
\* `.total_seconds() < 300` (5 minutes cooldown)
CooldownSeconds == 300

\* the clock advances by RetryTickSeconds at a time, MaxRetryTicks times
RetryTickSeconds == 100
MaxRetryTicks == 4
\* increment_retry is not called on an instance that counts this many
MaxRetryCount == 4

\* can_retry with a cooldown that still holds at exactly 300 seconds
can_retry_CooldownInclusive(self, t) ==
    IF self.retry_count >= MaxRetries THEN FALSE
    ELSE IF self.last_retry_at # None /\ t - self.last_retry_at[1] <= CooldownSeconds
    THEN FALSE
    ELSE TRUE

\* Payment.can_retry; t is timezone.now() in seconds
can_retry(self, t) ==
    IF self.retry_count >= MaxRetries THEN FALSE
    ELSE IF self.last_retry_at # None /\ t - self.last_retry_at[1] < CooldownSeconds
    THEN FALSE
    ELSE TRUE

\* Payment.increment_retry: the instance after the two assignments
increment_retry(self, t) ==
    [self EXCEPT !.retry_count = @ + 1, !.last_retry_at = <<t>>]

\* a worker gets its instance of the row (Payment.objects.get)
RetryLoad(w) ==
    /\ retryInst' = [retryInst EXCEPT ![w] =
                        [loaded |-> TRUE, retry_count |-> retryRow.retry_count,
                         last_retry_at |-> retryRow.last_retry_at, can |-> "none"]]
    /\ retryOut' = NoRetryCall
    /\ UNCHANGED <<retryRow, now>>
    /\ UNCHANGED <<orders, payments, pc, req, inst, seen, last, served, sigvars, users>>

\* payment.can_retry() on the worker's instance
CanRetry(w) ==
    /\ retryInst[w].loaded
    /\ LET r == can_retry(retryInst[w], now)
       IN  /\ retryOut' = [op |-> "can_retry", worker |-> w, ret |-> r]
           /\ retryInst' = [retryInst EXCEPT ![w].can = IF r THEN "True" ELSE "False"]
    /\ UNCHANGED <<retryRow, now>>
    /\ UNCHANGED <<orders, payments, pc, req, inst, seen, last, served, sigvars, users>>

\* payment.increment_retry() on the worker's instance; self.save() writes the
\* instance's columns to the row
IncrementRetry(w) ==
    /\ retryInst[w].loaded
    /\ retryInst[w].retry_count < MaxRetryCount
    /\ LET self == increment_retry(retryInst[w], now)
       IN  /\ retryInst' = [retryInst EXCEPT ![w] = [self EXCEPT !.can = "none"]]
           /\ retryRow' = [retry_count |-> self.retry_count,
                           last_retry_at |-> self.last_retry_at]
    /\ retryOut' = [op |-> "increment_retry", worker |-> w,
                    ret |-> retryInst[w].can = "True"]
    /\ UNCHANGED now
    /\ UNCHANGED <<orders, payments, pc, req, inst, seen, last, served, sigvars, users>>

\* time passes
RetryTick ==
    /\ now < MaxRetryTicks * RetryTickSeconds
    /\ now' = now + RetryTickSeconds
    /\ retryOut' = NoRetryCall
    /\ UNCHANGED <<retryRow, retryInst>>
    /\ UNCHANGED <<orders, payments, pc, req, inst, seen, last, served, sigvars, users>>

RetryNext ==
    \/ RetryTick
    \/ \E w \in Workers : RetryLoad(w)
    \/ \E w \in Workers : CanRetry(w)
    \/ \E w \in Workers : IncrementRetry(w)

RetrySpec == Init /\ [][RetryNext]_vars

----------------------------------------------------------------------------
(* Steps of a worker, for the properties below *)

\* worker w commits a Success outcome in this step
SuccessCommit(w) ==
    /\ pc'[w] = "idle"
    /\ \/ pc[w] = "verify_commit"
       \/ pc[w] = "webhook_save" /\ req[w].event = "charge.success"

\* the external id of the outcome worker w is applying
OutcomeId(w) == IF req[w].handler = "verify" THEN req[w].id ELSE req[w].data.id

\* worker w looks up the record of a Success outcome in this step
SuccessQuery(w) ==
    /\ pc'[w] # pc[w]
    /\ \/ pc[w] = "verify_query"
       \/ pc[w] = "webhook_query" /\ req[w].event = "charge.success"

Writing(w) == pc[w] \in {"verify_commit", "webhook_save"}

----------------------------------------------------------------------------
(* Properties *)

\* C1: in every reachable state a PaymentRecord is Completed if and only if
\* its Order is Paid.
C1_CompletedIffPaid ==
    \A i \in 1..Len(payments) :
        (payments[i].status = "Completed") <=> (orders[payments[i].order] = "Paid")

\* C2: reconcile calls on one reference are serialized: no call is about to
\* write a PaymentRecord that another call has changed since this call read it
\* (between a call's read and its write nobody else writes the record).
C2_ReadCheckWriteSerialized ==
    \A w \in Workers :
        Writing(w) => seen[w].row = payments[seen[w].pk]

\* C3: applying a Success outcome to a record that is already Completed with
\* the same external id changes neither the PaymentRecord (status,
\* transaction_id, metadata) nor the Order, and answers 200.
C3_SuccessIdempotent ==
    [][\A w \in Workers :
          ( /\ SuccessCommit(w)
            /\ seen[w].row = payments[seen[w].pk]
            /\ payments[seen[w].pk].status = "Completed"
            /\ payments[seen[w].pk].transaction_id = OutcomeId(w) )
          => /\ payments' = payments
             /\ orders' = orders
             /\ last'.status = 200]_vars

\* C4: a Completed PaymentRecord is never turned into Failed.
C4_NoRegression ==
    [][\A i \in 1..Len(payments) :
          payments[i].status = "Completed" => payments'[i].status # "Failed"]_vars

\* C5: Failed and Refunded are terminal: the status of a Failed or Refunded
\* PaymentRecord never changes.
C5_FailedRefundedTerminal ==
    [][\A i \in 1..Len(payments) :
          payments[i].status \in {"Failed", "Refunded"}
          => payments'[i].status = payments[i].status]_vars

\* C6: a PaymentRecord becomes Refunded only from Completed.
C6_RefundOnlyFromCompleted ==
    [][\A i \in 1..Len(payments) :
          (payments'[i].status = "Refunded" /\ payments[i].status # "Refunded")
          => payments[i].status = "Completed"]_vars

\* C7: a Success outcome (successful verify, or signature-valid charge.success
\* webhook) whose reference has a PaymentRecord is applied, and when the record
\* was found Pending the result is status Completed, transaction_id the
\* outcome's external id, Order Paid and response 200.
C7_SuccessApplied ==
    [][\A w \in Workers :
          /\ (SuccessQuery(w) /\ PksByReference(IF req[w].handler = "verify"
                                                THEN req[w].reference
                                                ELSE req[w].data.reference) # {})
             => Writing(w)'
          /\ (SuccessCommit(w) /\ seen[w].row.status = "Pending")
             => /\ payments'[seen[w].pk].status = "Completed"
                /\ payments'[seen[w].pk].transaction_id = OutcomeId(w)
                /\ orders'[seen[w].row.order] = "Paid"
                /\ last'.status = 200]_vars

\* C7 witness: a charge.success webhook has just completed a payment
C7_Witness ==
    /\ last.handler = "webhook" /\ last.event = "charge.success" /\ last.status = 200
    /\ Len(payments) = 1
    /\ payments[1].status = "Completed"
    /\ payments[1].transaction_id = ChargeId(payments[1].reference)
    /\ orders[payments[1].order] = "Paid"

C10_ValidWebhookAnswered200 ==
    (last.handler = "webhook" /\ last.event \in Events) => last.status = 200

\* C11: in every reachable state each Order has at most one PaymentRecord,
\* also when two initiations for one order both passed the existence check.
C11_OnePaymentPerOrder ==
    \A o \in OrderIds : Cardinality(PksByOrder(o)) <= 1

\* C11 witness: of two initiations that both passed the existence check, the
\* second insert was just refused, and the order has its one PaymentRecord
C11_Witness ==
    /\ last.handler = "payment" /\ last.status = 500
    /\ \E o \in OrderIds : Cardinality(PksByOrder(o)) = 1

\* C12: an initiation answered while its order already has a PaymentRecord is
\* answered 400, creates no record and has made no gateway call (it is not
\* answered from the step that follows the gateway call).
C12_ExistingPaymentAnswered400 ==
    [][\A o \in OrderIds :
          ( /\ last'.handler = "payment"
            /\ last'.reference = ReferenceOf(o)
            /\ PksByOrder(o) # {} )
          => /\ last'.status = 400
             /\ payments' = payments
             /\ \A w \in Workers : ~(pc[w] = "pay_call" /\ pc'[w] = "idle")]_vars

\* C13: an initiation creates a PaymentRecord if and only if its gateway
\* initialize call succeeded: on success exactly one record is appended, Pending,
\* with the reference of the charge; on a gateway error, timeout or network
\* failure it creates none.
C13_RecordIffGatewaySuccess ==
    [][\A w \in Workers : \A result \in GatewayInitResults :
          PaymentGateway(w, result)
          => IF result = "200"
             THEN payments' = Append(payments,
                                     NewPayment(req[w].order, ReferenceOf(req[w].order),
                                                req[w].amount))
             ELSE payments' = payments]_vars

\* C14: a verify request whose gateway call times out, cannot connect or is
\* answered with an HTTP error is answered 503 at once, and neither the
\* PaymentRecords nor the Orders change.
C14_VerifyGatewayDown503 ==
    [][\A w \in Workers :
          \/ served' = served
          \/ pc[w] # "idle"
          \/ \A reference \in Refs : \A result \in GatewayExceptions :
                VerifyGet(w, reference, result)
                => /\ last'.handler = "verify"
                   /\ last'.status = 503
                   /\ pc'[w] = "idle"
                   /\ payments' = payments
                   /\ orders' = orders]_vars

\* a verify request for the reference of a stored PaymentRecord was just
\* answered 503 after the gateway call raised
C14_Witness ==
    /\ last.handler = "verify"
    /\ last.status = 503
    /\ last.log = "Paystack verification request failed"
    /\ PksByReference(last.reference) # {}

\* C15: a verify request for a reference that has no PaymentRecord is answered
\* 404 whenever the gateway was reachable (the answer is not the 503 of C14),
\* and it changes nothing.
C15_UnknownReference404 ==
    [][( /\ last'.handler = "verify"
         /\ PksByReference(last'.reference) = {}
         /\ last'.status # 503 )
       => /\ last'.status = 404
          /\ payments' = payments
          /\ orders' = orders]_vars

\* C16: a verify request to which the gateway reports a failed charge leaves a
\* Pending PaymentRecord as the charge.failed webhook does: its status is
\* Failed and its metadata holds the failure reason.
C16_VerifyFailureAppliesFailed ==
    [][\A w \in Workers : \A reference \in KnownRefs :
          \/ served' = served
          \/ pc[w] # "idle"
          \/ VerifyGet(w, reference, "failed")
             => \A pk \in PksByReference(reference) :
                   payments[pk].status = "Pending"
                   => /\ payments'[pk].status = "Failed"
                      /\ payments'[pk].metadata.failure_reason # Missing]_vars

\* C17: no PaymentRecord has left Pending without an audit entry: every record
\* whose status is not Pending holds a raw outcome payload and a timestamp in
\* its metadata.
C17_StatusChangeAudited ==
    \A i \in 1..Len(payments) :
        payments[i].status # "Pending"
        => /\ payments[i].metadata.webhook_data # Missing
           /\ payments[i].metadata.webhook_received_at # Missing

\* C18: the audit trail in metadata is additive: the payload and the receipt
\* timestamp an earlier webhook event recorded in a PaymentRecord, and every
\* other key metadata holds, are still there after any later step.
C18_AuditTrailAdditive ==
    [][\A i \in 1..Len(payments) : \A k \in MetaKeys :
          payments[i].metadata[k] # Missing
          => payments'[i].metadata[k] = payments[i].metadata[k]]_vars

\* C19: can_retry returns False whenever retry_count >= 3, whatever the time;
\* with retry_count < 3 it returns False while fewer than 300 seconds have
\* passed since last_retry_at, and True once 300 seconds have passed or when
\* last_retry_at is unset.
C19_CanRetryPolicy ==
    [][\A w \in Workers :
          CanRetry(w)
          => LET self == retryInst[w]
             IN  /\ self.retry_count >= MaxRetries => ~retryOut'.ret
                 /\ self.retry_count < MaxRetries
                    => ( retryOut'.ret
                         <=> \/ self.last_retry_at = None
                             \/ now - self.last_retry_at[1] >= CooldownSeconds )]_vars

\* can_retry just returned True on an instance incremented once, exactly 300
\* seconds after that increment
C19_Witness ==
    /\ retryOut.op = "can_retry"
    /\ retryOut.ret
    /\ \E w \in Workers :
          /\ retryOut.worker = w
          /\ retryInst[w].retry_count = 1
          /\ retryInst[w].last_retry_at # None
          /\ now - retryInst[w].last_retry_at[1] = CooldownSeconds

\* C20: increment_retry is atomic among concurrent callers: an increment by a
\* caller whose can_retry check passed raises the stored retry_count by exactly
\* one (none is lost) and never past 3.
C20_IncrementAtomic ==
    [][\A w \in Workers :
          ( IncrementRetry(w) /\ retryInst[w].can = "True" )
          => /\ retryRow'.retry_count = retryRow.retry_count + 1
             /\ retryRow'.retry_count <= MaxRetries]_vars

\* C25: an initiation whose gateway initialize request times out is answered
\* 504.
C25_InitTimeout504 ==
    [][\A w \in Workers :
          PaymentGateway(w, "Timeout") => last'.status = 504]_vars

\* C26: an initiation the gateway declines with a 4xx response is answered 400
\* (Rejected), and one that meets a network error or a 5xx response is answered
\* 503 or 504 (Unavailable).
C26_InitFailureClassified ==
    [][\A w \in Workers :
          /\ PaymentGateway(w, "400") => last'.status = 400
          /\ \A result \in {"500", "ConnectionError", "Timeout"} :
                PaymentGateway(w, result) => last'.status \in {503, 504}]_vars

\* C27: a webhook that carries the valid signature of its body, a body that is
\* no well-formed JSON, is answered 400 and changes no PaymentRecord and no
\* Order.
C27_MalformedJson400 ==
    [][\A w \in Workers :
          \/ served' = served
          \/ pc[w] # "idle"
          \/ \A body \in Bodies :
                ( /\ ~IsJson(body)
                  /\ WebhookPost(w, body, HmacSha512Hex(PAYSTACK_SECRET_KEY, body)) )
                => /\ last'.handler = "webhook"
                   /\ last'.status = 400
                   /\ pc'[w] = "idle"
                   /\ payments' = payments
                   /\ orders' = orders]_vars

\* C28: no update is lost: when a call saves its copy of a row, whatever
\* another call wrote to the row since this call read it (a metadata key, the
\* transaction_id), and this call did not itself assign, is still in the row.
C28_NoLostUpdate ==
    [][\A w \in Workers :
          ( Writing(w) /\ pc'[w] = "idle" /\ payments' # payments )
          => LET pk   == seen[w].pk
                 read == seen[w].row
                 mine == inst[w].row
                 cur  == payments[pk]
             IN  /\ \A k \in MetaKeys :
                       ( /\ cur.metadata[k] # read.metadata[k]
                         /\ mine.metadata[k] = read.metadata[k] )
                       => payments'[pk].metadata[k] = cur.metadata[k]
                 /\ ( /\ cur.transaction_id # read.transaction_id
                      /\ mine.transaction_id = read.transaction_id )
                    => payments'[pk].transaction_id = cur.transaction_id]_vars

\* C29: retry_count is a bounded counter: after any sequence of can_retry and
\* increment_retry calls the stored retry_count is between 0 and 3.
C29_RetryCountBounded ==
    /\ retryRow.retry_count >= 0
    /\ retryRow.retry_count <= MaxRetries

\* C23: reconciliation does not depend on delivery order: when a Success
\* arrives by one path (verify or charge.success webhook) for a record the
\* other path has already completed with the same transaction id, the record
\* stays Completed with that id, the Order stays Paid, and the later arrival
\* changes nothing, so both orders end in the same state.
C23_DeliveryOrderIndependent ==
    [][\A w \in Workers :
          ( /\ SuccessCommit(w)
            /\ seen[w].row = payments[seen[w].pk]
            /\ seen[w].row.status = "Completed"
            /\ seen[w].row.transaction_id = OutcomeId(w)
            /\ (req[w].handler = "verify")
                  <=> (seen[w].row.metadata.webhook_data # Missing) )
          => LET pk == seen[w].pk
             IN  /\ payments'[pk].status = "Completed"
                 /\ payments'[pk].transaction_id = OutcomeId(w)
                 /\ orders'[payments[pk].order] = "Paid"
                 /\ payments'[pk] = payments[pk]]_vars

\* C24: when a save of a Success reconciliation raises, on the verify path or
\* the charge.success webhook path, neither write is visible afterwards: the
\* Payment and the Order are as they were before the step.
C24_FailedSuccessWritesNothing ==
    [][\A w \in Workers : \A fault \in SaveFaults :
          \/ pc[w] \notin {"verify_commit", "webhook_save"}
          \/ last'.status # 500
          \/ ( \/ VerifyCommitFails(w, fault)
               \/ WebhookSaveFails(w, fault) /\ req[w].event = "charge.success" )
             => /\ payments' = payments
                /\ orders' = orders]_vars

\* the second save of a Success reconciliation has just raised: the Payment is
\* still Pending and the Order still pending
C24_Witness ==
    /\ last.status = 500
    /\ last.log \in {"Unexpected error in payment verification: payment.save",
                     "Error processing webhook: order.save"}
    /\ Len(payments) = 1
    /\ payments[1].status = "Pending"
    /\ orders[payments[1].order] = "pending"

\* C21: an Order becomes Paid only in the commit of a reconciliation step (a
\* verify the gateway confirmed, or a charge.success webhook whose signature
\* was valid) for a PaymentRecord of that Order; a client's order request never
\* creates or leaves an Order Paid.
C21_PaidOnlyByReconciliation ==
    [][\A o \in DOMAIN orders' :
          ( /\ orders'[o] \in {"Paid", "paid"}
            /\ o \in DOMAIN orders => orders[o] # orders'[o] )
          => \E w \in Workers :
                /\ SuccessCommit(w)
                /\ inst[w].row.order = o]_vars

\* a client's order request that asked for status Paid was just refused, and
\* the Order a reconciliation has paid is Paid
C21_Witness ==
    /\ last.handler = "order"
    /\ last.reference = Str("Paid")
    /\ last.status = 400
    /\ \E o \in OrderIds : orders[o] = "Paid"

\* C22: a PaymentRecord is never deleted: in every step the Payment table
\* keeps all the rows it had, in place, and only grows.
C22_PaymentsNeverDeleted ==
    [][/\ Len(payments') >= Len(payments)
       /\ \A i \in 1..Len(payments) :
             /\ i <= Len(payments')
             /\ payments'[i].reference = payments[i].reference]_vars

\* C30: an Order is Paid only if the amount of its PaymentRecord equals the
\* Order's total_price.
C30_PaidOnlyForFullAmount ==
    \A o \in DOMAIN orders :
        orders[o] = "Paid"
        => \E i \in PksByOrder(o) : payments[i].amount = total_price(o)

====
